---- MODULE Spec2Model ----
(***************************************************************************)
(* A model of the client-side engine of the emotion diary front end: the   *)
(* polling pages (HomePage, RealtimePage, WatchPage) with their interval   *)
(* timers, in-flight fetches and React state, the DiaryPage timeline       *)
(* merge, the ranking of the predicted probabilities, and StatsPage with   *)
(* its tabs, chart adapters and colours.                                   *)
(*                                                                         *)
(* One behaviour follows the lifetime of one page instance: it is mounted  *)
(* (first render and effect run), handles timer ticks, user clicks and     *)
(* fetch responses, each in one event-loop turn, and is unmounted.         *)
(* Fetches that are in flight when the page is unmounted still resolve.    *)
(***************************************************************************)
EXTENDS Integers, Sequences, FiniteSets, Bags, TLC

\* JavaScript's null and undefined, and the rejection of a fetch promise.
\* Every value is a tagged record, so that values of different shapes compare.
Null == [tag |-> "null"]
Rejected == [tag |-> "rejected"]
\* An optional field is a sequence: <<>> when the field is undefined.
Undefined == <<>>
Some(v) == <<v>>

----------------------------------------------------------------------------
\* Program constants.

\* newHistory.slice(-20)
Capacity == 20
\* health.slice(0, 5)
HealthShown == 5
\* .slice(0, 3) of the ranked probabilities
TopK == 3

\* Bounds of the model.

\* loadData invocations in one behaviour
MaxCalls == 22
\* loadData invocations in flight at once
MaxInflight == 2
\* loadStats invocations in one behaviour
MaxLoads == 4
\* entries of an emotion mapping the server returns
MaxEmotions == 2
\* days in the weekly aggregate the server returns
MaxDays == 2
\* entries of the probabilities the server returns
MaxProbabilities == 4
\* RealtimePage refreshes, while mounted, that append no point
MaxMisses == 1
\* length of the health list the server returns
MaxHealth == 6
\* length of the entry list and of the label list the server returns
MaxLen == 3
\* diary entries the server stores before the page is opened
MaxEarlier == 1
\* requests a page with forms issues after the two of its mount
MaxSubmits == 2

----------------------------------------------------------------------------
VARIABLES
    page,        \* the page instance of this behaviour: "none" before the mount
    mounted,     \* the page is mounted
    timers,      \* bag of active setInterval handles, each the closure it calls
    inflight,    \* bag of loadData invocations awaiting their Promise.all
    issued,      \* number of loadData invocations so far
    misses,      \* RealtimePage: refreshes handled while mounted without a new point
    now,         \* the clock new Date() reads, in seconds: one per handled response
    event,       \* the handler that ran last
    response,    \* the answers the last handled await settled with
    period,      \* WatchPage: useState('day')
    loading,     \* useState(true) of the polling pages and of StatsPage,
                 \* useState(false) of DiaryPage and MoodPage
    latestData,  \* RealtimePage, WatchPage: useState(null)
    prediction,  \* RealtimePage: useState(null)
    hrHistory,   \* RealtimePage: useState([])
    appended,    \* every point handed to setHrHistory, in order
    analytics,   \* WatchPage: useState(null)
    dailyStats,  \* HomePage, StatsPage: useState(null)
    healthData,  \* HomePage: useState([])
    entries,     \* DiaryPage: useState([])
    todayLabels, \* DiaryPage: useState([])
    activeTab,   \* StatsPage: useState('daily')
    weeklyStats, \* StatsPage: useState(null)
    monthlyStats,            \* StatsPage: useState(null)
    dailyWatchAnalytics,     \* StatsPage: useState(null)
    weeklyWatchAnalytics,    \* StatsPage: useState(null)
    monthlyWatchAnalytics,   \* StatsPage: useState(null)
    inputValue,      \* DiaryPage: useState('')
    selectedEmotion, \* DiaryPage, MoodPage: useState(null)
    intensity,       \* DiaryPage, MoodPage: useState(5)
    note,            \* DiaryPage, MoodPage: useState('')
    moodLoading,     \* DiaryPage: useState(false)
    server           \* the diary entries and the emotion labels the server stores

pollVars == <<page, mounted, timers, inflight, issued, misses, now, event, response,
              period, loading, latestData, prediction, hrHistory, appended,
              analytics, dailyStats, healthData>>

diaryVars == <<entries, todayLabels>>

\* The state of StatsPage that no other page has.
statsVars == <<activeTab, weeklyStats, monthlyStats, dailyWatchAnalytics,
               weeklyWatchAnalytics, monthlyWatchAnalytics>>

\* The state of the submit forms, and the server behind them.
formVars == <<inputValue, selectedEmotion, intensity, note, moodLoading, server>>

vars == <<pollVars, diaryVars, statsVars, formVars>>

Pages == {"home", "realtime", "watch"}
Periods == {"day", "week", "month"}

\* What the server can answer.
HeartRates == {Undefined, Some(0), Some(72)}
WatchDataValues == {Null} \cup [tag : {"WatchData"}, heart_rate : HeartRates]
Predictions == [tag : {"EmotionPrediction"}, emotion : {"calm", "joy"}]
AnalyticsOf(p) == [tag |-> "WatchAnalytics", period |-> p]
DailyStatsValues == {[tag |-> "DailyStats"]}
HealthLists == {[tag |-> "HealthData", list |-> [i \in 1..n |-> i]] : n \in 0..MaxHealth}

\* The closure a page's effect hands to setInterval: loadData, which in
\* WatchPage has captured the period of the render that ran the effect.
Closure(pg, p) ==
    [page |-> pg, fn |-> "loadData", period |-> IF pg = "watch" THEN p ELSE "none"]

\* setInterval(loadData, 60000 | 10000 | 30000)
Interval(pg) ==
    CASE pg = "home" -> 60000
      [] pg = "realtime" -> 10000
      [] pg = "watch" -> 30000

\* The handle of an active interval timer.
Timer(c) == [callback |-> c, ms |-> Interval(c.page)]

\* A DiaryPage request awaiting its answer.
Request(fn) == [page |-> "diary", fn |-> fn, period |-> "none"]

Ev(kind, ok, data) == [kind |-> kind, ok |-> ok, data |-> data]

----------------------------------------------------------------------------
\* JavaScript helpers.

\* Mutant: if (latest)
TruthyNonNull(latest) == latest # Null

\* if (latest?.heart_rate): null, undefined and 0 are falsy
Truthy(latest) ==
    /\ latest # Null
    /\ latest.heart_rate # Undefined
    /\ latest.heart_rate[1] # 0

\* s.slice(-n)
SliceLast(s, n) == IF Len(s) <= n THEN s ELSE SubSeq(s, Len(s) - n + 1, Len(s))

\* s.slice(0, n)
SliceFirst(s, n) == IF Len(s) <= n THEN s ELSE SubSeq(s, 1, n)

\* Mutant: a setter that writes whether or not the component is mounted.
SetStateAlways(old, new) == new

\* A state setter of useState: React drops an update dispatched to a
\* component that is no longer mounted.
SetState(old, new) == IF mounted THEN new ELSE old

\* format(new Date(), 'HH:mm:ss'): the clock counts seconds, and the string
\* is the second of the day.
FormatTime(t) == t % 86400

\* Mutant: the slice is left out.
\* Mutant: the new point is put in front.
PushPointPrepend(prev, point) == SliceLast(<<point>> \o prev, Capacity)

PushPointUnbounded(prev, point) == Append(prev, point)

\* Mutant: slice(0, 20), which keeps the head and drops the new point.
PushPointKeepHead(prev, point) == SliceFirst(Append(prev, point), Capacity)

\* prev => [...prev, { time: format(new Date(), 'HH:mm:ss'), value: latest.heart_rate! }].slice(-20)
PushPoint(prev, point) == SliceLast(Append(prev, point), Capacity)

----------------------------------------------------------------------------
Init ==
    /\ page = "none"
    /\ mounted = FALSE
    /\ timers = EmptyBag
    /\ inflight = EmptyBag
    /\ issued = 0
    /\ misses = 0
    /\ now = 0
    /\ event = Ev("init", TRUE, Null)
    /\ response = <<>>
    /\ period = "day"
    /\ loading = TRUE
    /\ latestData = Null
    /\ prediction = Null
    /\ hrHistory = <<>>
    /\ appended = <<>>
    /\ analytics = Null
    /\ dailyStats = Null
    /\ healthData = <<>>
    /\ entries = <<>>
    /\ todayLabels = <<>>
    /\ activeTab = "daily"
    /\ weeklyStats = Null
    /\ monthlyStats = Null
    /\ dailyWatchAnalytics = Null
    /\ weeklyWatchAnalytics = Null
    /\ monthlyWatchAnalytics = Null
    /\ inputValue = <<>>
    /\ selectedEmotion = Null
    /\ intensity = 5
    /\ note = <<>>
    /\ moodLoading = FALSE
    /\ server = [entries |-> <<>>, labels |-> <<>>]

\* Mutant: an invocation is skipped while another is in flight.
LoadDataDeduplicated(c) ==
    IF inflight = EmptyBag
    THEN /\ inflight' = inflight (+) SetToBag({c})
         /\ issued' = issued + 1
         /\ loading' = IF c.page = "watch" THEN TRUE ELSE loading
    ELSE UNCHANGED <<inflight, issued, loading>>

\* loadData up to its await: the fetches are issued; WatchPage's sets loading.
LoadData(c) ==
    /\ inflight' = inflight (+) SetToBag({c})
    /\ issued' = issued + 1
    /\ loading' = IF c.page = "watch" THEN TRUE ELSE loading

\* Mutant: the effect only starts the timer.
RunEffectTimerOnly(c) ==
    /\ timers' = timers (+) SetToBag({Timer(c)})
    /\ UNCHANGED <<inflight, issued, loading>>

\* The effect: loadData(); const interval = setInterval(loadData, ...)
RunEffect(c) ==
    /\ LoadData(c)
    /\ timers' = timers (+) SetToBag({Timer(c)})

\* First render and effect run of a page.
Mount(pg) ==
    /\ page = "none"
    /\ page' = pg
    /\ mounted' = TRUE
    /\ RunEffect(Closure(pg, period))
    /\ event' = Ev("mount", TRUE, Null)
    /\ UNCHANGED response
    /\ UNCHANGED <<misses, now, period, latestData, prediction, hrHistory,
                   appended, analytics, dailyStats, healthData>>
    /\ UNCHANGED diaryVars
    /\ UNCHANGED statsVars
    /\ UNCHANGED formVars

\* An interval timer fires and calls its closure.
Tick(t) ==
    /\ BagIn(t, timers)
    /\ issued < MaxCalls
    /\ BagCardinality(inflight) < MaxInflight
    /\ LoadData(t.callback)
    /\ event' = Ev("tick", TRUE, Null)
    /\ UNCHANGED response
    /\ UNCHANGED <<page, mounted, timers, misses, now, period, latestData,
                   prediction, hrHistory, appended, analytics, dailyStats,
                   healthData>>
    /\ UNCHANGED diaryVars
    /\ UNCHANGED statsVars
    /\ UNCHANGED formVars

\* Mutant: a cleanup that clears nothing.
CleanupNothing(c) == timers

\* The effect's cleanup: clearInterval(interval)
Cleanup(c) == timers (-) SetToBag({Timer(c)})

\* The page is torn down.
Unmount ==
    /\ mounted
    /\ page \in Pages
    /\ mounted' = FALSE
    /\ timers' = Cleanup(Closure(page, period))
    /\ event' = Ev("unmount", TRUE, Null)
    /\ UNCHANGED response
    /\ UNCHANGED <<page, inflight, issued, misses, now, period, loading,
                   latestData, prediction, hrHistory, appended, analytics,
                   dailyStats, healthData>>
    /\ UNCHANGED diaryVars
    /\ UNCHANGED statsVars
    /\ UNCHANGED formVars

\* WatchPage: a click on a period tab; the re-render cleans the effect up
\* and runs it again with the new period.  The tabs are not rendered while
\* (loading && !analytics).
SetPeriod(p) ==
    /\ mounted
    /\ page = "watch"
    /\ ~(loading /\ analytics = Null)
    /\ p # period
    /\ issued < MaxCalls
    /\ BagCardinality(inflight) < MaxInflight
    /\ period' = p
    /\ inflight' = inflight (+) SetToBag({Closure(page, p)})
    /\ issued' = issued + 1
    /\ loading' = TRUE
    /\ timers' = Cleanup(Closure(page, period)) (+) SetToBag({Timer(Closure(page, p))})
    /\ event' = Ev("setPeriod", TRUE, Null)
    /\ UNCHANGED response
    /\ UNCHANGED <<page, mounted, misses, now, latestData, prediction,
                   hrHistory, appended, analytics, dailyStats, healthData>>
    /\ UNCHANGED diaryVars
    /\ UNCHANGED statsVars
    /\ UNCHANGED formVars

\* RealtimePage.loadData from its await on: Promise.all settles with the two
\* answers, or rejects when either fetch does.
ResolveRealtime(c, latest, pred) ==
    /\ c.page = "realtime"
    /\ BagIn(c, inflight)
    /\ inflight' = inflight (-) SetToBag({c})
    /\ now' = now + 1
    /\ response' = <<latest, pred>>
    /\ loading' = SetState(loading, FALSE)
    /\ IF latest # Rejected /\ pred # Rejected
       THEN /\ latestData' = SetState(latestData, latest)
            /\ prediction' = SetState(prediction, pred)
            /\ event' = Ev("resolve", TRUE, latest)
            /\ IF Truthy(latest)
               THEN LET point == [time |-> FormatTime(now'), value |-> latest.heart_rate]
                    IN  /\ hrHistory' = SetState(hrHistory, PushPoint(hrHistory, point))
                        /\ appended' = IF mounted THEN Append(appended, point)
                                                   ELSE appended
                        /\ UNCHANGED misses
               ELSE /\ mounted => misses < MaxMisses
                    /\ misses' = IF mounted THEN misses + 1 ELSE misses
                    /\ UNCHANGED <<hrHistory, appended>>
       ELSE /\ mounted => misses < MaxMisses
            /\ misses' = IF mounted THEN misses + 1 ELSE misses
            /\ event' = Ev("resolve", FALSE, Null)
            /\ UNCHANGED <<latestData, prediction, hrHistory, appended>>
    /\ UNCHANGED <<page, mounted, timers, issued, period, analytics,
                   dailyStats, healthData>>
    /\ UNCHANGED diaryVars
    /\ UNCHANGED statsVars
    /\ UNCHANGED formVars

\* WatchPage.loadData from its await on.
ResolveWatch(c, analyticsData, latest) ==
    /\ c.page = "watch"
    /\ BagIn(c, inflight)
    /\ inflight' = inflight (-) SetToBag({c})
    /\ now' = now + 1
    /\ response' = <<analyticsData, latest>>
    /\ loading' = SetState(loading, FALSE)
    /\ IF analyticsData # Rejected /\ latest # Rejected
       THEN /\ analytics' = SetState(analytics, analyticsData)
            /\ latestData' = SetState(latestData, latest)
            /\ event' = Ev("resolve", TRUE, c)
       ELSE /\ event' = Ev("resolve", FALSE, c)
            /\ UNCHANGED <<analytics, latestData>>
    /\ UNCHANGED <<page, mounted, timers, issued, misses, period, prediction,
                   hrHistory, appended, dailyStats, healthData>>
    /\ UNCHANGED diaryVars
    /\ UNCHANGED statsVars
    /\ UNCHANGED formVars

\* HomePage.loadData from its await on.
ResolveHome(c, stats, health) ==
    /\ c.page = "home"
    /\ BagIn(c, inflight)
    /\ inflight' = inflight (-) SetToBag({c})
    /\ now' = now + 1
    /\ response' = <<stats, health>>
    /\ loading' = SetState(loading, FALSE)
    /\ IF stats # Rejected /\ health # Rejected
       THEN /\ dailyStats' = SetState(dailyStats, stats)
            /\ healthData' = SetState(healthData, SliceFirst(health.list, HealthShown))
            /\ event' = Ev("resolve", TRUE, Null)
       ELSE /\ event' = Ev("resolve", FALSE, Null)
            /\ UNCHANGED <<dailyStats, healthData>>
    /\ UNCHANGED <<page, mounted, timers, issued, misses, period, latestData,
                   prediction, hrHistory, appended, analytics>>
    /\ UNCHANGED diaryVars
    /\ UNCHANGED statsVars
    /\ UNCHANGED formVars

----------------------------------------------------------------------------
\* DiaryPage.

\* An ISO-8601 instant with millisecond precision: two instants of one
\* second and one of the next.
Instants == {[sec |-> 0, ms |-> 0], [sec |-> 0, ms |-> 500], [sec |-> 1, ms |-> 0]}

\* new Date(timestamp).getTime(): milliseconds since the epoch
GetTime(ts) == ts.sec * 1000 + ts.ms

\* The lists the server can answer with: ids unique within the source, in
\* any timestamp order.
EntryLists ==
    UNION {[1..n -> Instants] : n \in 0..MaxLen}

DiaryEntries(ts) == [i \in 1..Len(ts) |-> [id |-> i, created_at |-> ts[i]]]
EmotionLabels(ts) == [i \in 1..Len(ts) |-> [id |-> i, timestamp |-> ts[i]]]

\* entries.map(entry => ({ type: 'diary', data: entry, timestamp: entry.created_at }))
TagDiary(es) ==
    [i \in 1..Len(es) |->
        [type |-> "diary", data |-> es[i], timestamp |-> es[i].created_at]]

\* todayLabels.map(label => ({ type: 'mood', data: label, timestamp: label.timestamp }))
TagMood(ls) ==
    [i \in 1..Len(ls) |->
        [type |-> "mood", data |-> ls[i], timestamp |-> ls[i].timestamp]]

\* Mutant: a.getTime() - b.getTime(), ascending.
CompareAscending(a, b) == GetTime(a.timestamp) - GetTime(b.timestamp)

\* Mutant: the comparison drops the milliseconds.
CompareSeconds(a, b) == b.timestamp.sec - a.timestamp.sec

\* (a, b) => new Date(b.timestamp).getTime() - new Date(a.timestamp).getTime()
Compare(a, b) == GetTime(b.timestamp) - GetTime(a.timestamp)

\* Array.prototype.sort: a stable sort by the comparator. x goes before the
\* first element it must precede, behind every element it compares equal to.
RECURSIVE InsertSorted(_, _)
InsertSorted(x, sorted) ==
    IF sorted = <<>> THEN <<x>>
    ELSE IF Compare(x, Head(sorted)) < 0 THEN <<x>> \o sorted
    ELSE <<Head(sorted)>> \o InsertSorted(x, Tail(sorted))

RECURSIVE SortFrom(_, _)
SortFrom(sorted, rest) ==
    IF rest = <<>> THEN sorted
    ELSE SortFrom(InsertSorted(Head(rest), sorted), Tail(rest))

Sort(s) == SortFrom(<<>>, s)

\* Mutant: nothing is shown while there is no diary entry.
MergeWhenBoth(first, second) == IF first = <<>> THEN <<>> ELSE Sort(first \o second)

\* [...first, ...second].sort(...)
Merge(first, second) == Sort(first \o second)

\* Mutant: the labels are spread first.
allEntriesLabelsFirst == Sort(TagMood(todayLabels) \o TagDiary(entries))

\* const allEntries = [...entries.map(...), ...todayLabels.map(...)].sort(...)
allEntries == Merge(TagDiary(entries), TagMood(todayLabels))

\* useEffect(() => { loadEntries(); loadTodayLabels() }, [])
MountDiary ==
    /\ page = "none"
    /\ page' = "diary"
    /\ mounted' = TRUE
    /\ inflight' = inflight (+) SetToBag({Request("loadEntries")})
                            (+) SetToBag({Request("loadTodayLabels")})
    /\ issued' = issued + 2
    /\ loading' = FALSE
    /\ event' = Ev("mount", TRUE, Null)
    /\ UNCHANGED response
    /\ UNCHANGED <<timers, misses, now, period, latestData, prediction,
                   hrHistory, appended, analytics, dailyStats, healthData>>
    /\ UNCHANGED diaryVars
    /\ UNCHANGED statsVars
    /\ UNCHANGED formVars

\* DiaryPage is torn down; it has no effect cleanup.
UnmountDiary ==
    /\ mounted
    /\ page = "diary"
    /\ mounted' = FALSE
    /\ event' = Ev("unmount", TRUE, Null)
    /\ UNCHANGED response
    /\ UNCHANGED <<page, timers, inflight, issued, misses, now, period, loading,
                   latestData, prediction, hrHistory, appended, analytics,
                   dailyStats, healthData>>
    /\ UNCHANGED diaryVars
    /\ UNCHANGED statsVars
    /\ UNCHANGED formVars

\* Mutant: both loads are awaited together, so that a failure of the entry
\* fetch also drops the answer of the label fetch.
ResolveLoadEntriesJointly(data) ==
    /\ BagIn(Request("loadEntries"), inflight)
    /\ now' = now + 1
    /\ response' = <<data>>
    /\ IF data # Rejected
       THEN /\ inflight' = inflight (-) SetToBag({Request("loadEntries")})
            /\ entries' = SetState(entries, data.list)
            /\ event' = Ev("loadEntries", TRUE, Null)
       ELSE /\ inflight' = EmptyBag
            /\ event' = Ev("loadEntries", FALSE, Null)
            /\ UNCHANGED entries
    /\ UNCHANGED <<page, mounted, timers, issued, misses, period, loading,
                   latestData, prediction, hrHistory, appended, analytics,
                   dailyStats, healthData, todayLabels>>
    /\ UNCHANGED statsVars
    /\ UNCHANGED formVars

\* loadEntries from its await on
ResolveLoadEntries(data) ==
    /\ BagIn(Request("loadEntries"), inflight)
    /\ inflight' = inflight (-) SetToBag({Request("loadEntries")})
    /\ now' = now + 1
    /\ response' = <<data>>
    /\ IF data # Rejected
       THEN /\ entries' = SetState(entries, data.list)
            /\ event' = Ev("loadEntries", TRUE, Null)
       ELSE /\ event' = Ev("loadEntries", FALSE, Null)
            /\ UNCHANGED entries
    /\ UNCHANGED <<page, mounted, timers, issued, misses, period, loading,
                   latestData, prediction, hrHistory, appended, analytics,
                   dailyStats, healthData, todayLabels>>
    /\ UNCHANGED statsVars
    /\ UNCHANGED formVars

\* loadTodayLabels from its await on
ResolveLoadTodayLabels(labels) ==
    /\ BagIn(Request("loadTodayLabels"), inflight)
    /\ inflight' = inflight (-) SetToBag({Request("loadTodayLabels")})
    /\ now' = now + 1
    /\ response' = <<labels>>
    /\ IF labels # Rejected
       THEN /\ todayLabels' = SetState(todayLabels, labels.list)
            /\ event' = Ev("loadTodayLabels", TRUE, Null)
       ELSE /\ event' = Ev("loadTodayLabels", FALSE, Null)
            /\ UNCHANGED todayLabels
    /\ UNCHANGED <<page, mounted, timers, issued, misses, period, loading,
                   latestData, prediction, hrHistory, appended, analytics,
                   dailyStats, healthData, entries>>
    /\ UNCHANGED statsVars
    /\ UNCHANGED formVars

EntriesResponse ==
    \E data \in {[tag |-> "DiaryEntry[]", list |-> DiaryEntries(ts)] : ts \in EntryLists}
                \cup {Rejected} :
        ResolveLoadEntries(data)

LabelsResponse ==
    \E labels \in {[tag |-> "EmotionLabel[]", list |-> EmotionLabels(ts)] : ts \in EntryLists}
                  \cup {Rejected} :
        ResolveLoadTodayLabels(labels)

NextDiary ==
    \/ MountDiary
    \/ UnmountDiary
    \/ EntriesResponse
    \/ LabelsResponse

SpecDiary == Init /\ [][NextDiary]_vars

----------------------------------------------------------------------------
\* StatsPage.

\* A Record<string, number> is the sequence of its entries in iteration
\* order: the keys are emotion names, which JavaScript iterates in insertion
\* order, and no key occurs twice.
Emotions == {"joy", "sad", "calm"}

\* The sequences of at most n distinct elements of K.
InjectiveSeqs(K, n) ==
    {ks \in UNION {[1..m -> K] : m \in 0..n} :
        \A i, j \in DOMAIN ks : i # j => ks[i] # ks[j]}

\* The mappings of at most n keys of K to values of V.
Mappings(K, V, n) ==
    UNION {{[i \in DOMAIN ks |-> [key |-> ks[i], value |-> vs[i]]] :
              vs \in [DOMAIN ks -> V]} : ks \in InjectiveSeqs(K, n)}

\* Object.entries, Object.keys
Entries(obj) == [i \in DOMAIN obj |-> <<obj[i].key, obj[i].value>>]
Keys(obj) == [i \in DOMAIN obj |-> obj[i].key]

\* obj[k]: undefined when obj has no own property k
Get(obj, k) ==
    IF \E i \in DOMAIN obj : obj[i].key = k
    THEN Some(obj[CHOOSE i \in DOMAIN obj : obj[i].key = k].value)
    ELSE Undefined

\* Defining property k in an object literal: a key that is already there
\* keeps its place and takes the new value.
Put(obj, k, v) ==
    IF \E i \in DOMAIN obj : obj[i].key = k
    THEN [i \in DOMAIN obj |-> IF obj[i].key = k THEN [key |-> k, value |-> v]
                                                   ELSE obj[i]]
    ELSE Append(obj, [key |-> k, value |-> v])

\* The values of a chart row: numbers and strings.
Num(n) == [num |-> n]
Str(s) == [str |-> s]

\* { ...obj, ...source } for a Record<string, number>
RECURSIVE Spread(_, _)
Spread(obj, source) ==
    IF source = <<>> THEN obj
    ELSE Spread(Put(obj, Head(source).key, Num(Head(source).value)), Tail(source))

\* A date string is the number of its day, day 0 being Thursday 1970-01-01.
DateString(d) == [date |-> d]

\* format(new Date(date), 'EEE'), in a zone where the date string's midnight
\* falls on the same day.
FormatEEE(date) ==
    Str(<<"Thu", "Fri", "Sat", "Sun", "Mon", "Tue", "Wed">>[(date.date % 7) + 1])

\* The aggregates the server returns.  Counts are 1 or 2; a fraction is in
\* hundredths (25 is 0.25).
Counts == {1, 2}
Fractions == {25, 75}

DailyStatsOf(d, dist) ==
    [tag |-> "DailyStats", date |-> DateString(d), emotion_distribution |-> dist]

\* The emotions of the days of a week, each once, in the order in which
\* they first occur.
RECURSIVE FirstOccurrences(_, _)
FirstOccurrences(seen, dists) ==
    IF dists = <<>> THEN seen
    ELSE IF Head(dists) = <<>> THEN FirstOccurrences(seen, Tail(dists))
    ELSE LET k == Head(Head(dists)).key
             rest == <<Tail(Head(dists))>> \o Tail(dists)
         IN  IF \E i \in DOMAIN seen : seen[i] = k
             THEN FirstOccurrences(seen, rest)
             ELSE FirstOccurrences(Append(seen, k), rest)

\* The week aggregate of the given days: the days are consecutive, and
\* emotion_trend has the series of each emotion of the week, 0 on a day
\* without it.
WeeklyStatsOf(dists) ==
    LET emotions == FirstOccurrences(<<>>, dists)
        CountOn(e, i) == IF Get(dists[i], e) = Undefined THEN 0 ELSE Get(dists[i], e)[1]
    IN  [tag |-> "WeeklyStats",
         daily_stats |-> [i \in DOMAIN dists |-> DailyStatsOf(i, dists[i])],
         emotion_trend |->
             [j \in DOMAIN emotions |->
                 [key |-> emotions[j],
                  value |-> [i \in DOMAIN dists |-> CountOn(emotions[j], i)]]]]

MonthlyStatsOf(patterns) == [tag |-> "MonthlyStats", emotion_patterns |-> patterns]

DailyAggregates == {DailyStatsOf(1, dist) : dist \in Mappings(Emotions, Counts, MaxEmotions)}

WeeklyAggregates ==
    {WeeklyStatsOf(dists) :
        dists \in UNION {[1..n -> Mappings({"joy", "sad"}, {1}, MaxEmotions)] :
                            n \in 0..MaxDays}}

\* Week aggregates whose mappings may have an entry named like a field of
\* the chart row.
WeeklyAggregatesNamed ==
    {WeeklyStatsOf(dists) :
        dists \in UNION {[1..n -> Mappings({"joy", "day", "date"}, {1}, MaxEmotions)] :
                            n \in 0..MaxDays}}

MonthlyAggregates ==
    {MonthlyStatsOf(patterns) : patterns \in Mappings(Emotions, Fractions, MaxEmotions)}

\* One aggregate of each kind.
EmptyDaily == {DailyStatsOf(1, <<>>)}
EmptyWeekly == {WeeklyStatsOf(<<>>)}
EmptyMonthly == {MonthlyStatsOf(<<>>)}

\* const COLORS = [...]
COLORS == <<"#007AFF", "#34C759", "#FF2D55", "#AF52DE", "#FF9500", "#FFCC00">>

\* COLORS[index % COLORS.length], index counting from 0
ColorAt(index) == COLORS[(index % Len(COLORS)) + 1]

\* Mutant: a row with count 0 follows for every emotion the day does not have.
prepareDailyChartDataZeroFilled ==
    IF dailyStats = Null THEN <<>>
    ELSE LET dist == dailyStats.emotion_distribution
             absent == {e \in Emotions : Get(dist, e) = Undefined}
             Fill[es \in SUBSET Emotions] ==
                 IF es = {} THEN <<>>
                 ELSE LET e == CHOOSE x \in es : TRUE
                      IN  <<[emotion |-> e, count |-> 0]>> \o Fill[es \ {e}]
         IN  [i \in DOMAIN dist |-> [emotion |-> dist[i].key, count |-> dist[i].value]]
                 \o Fill[absent]

\* prepareDailyChartData
prepareDailyChartData ==
    IF dailyStats = Null THEN <<>>
    ELSE LET es == Entries(dailyStats.emotion_distribution)
         IN  [i \in DOMAIN es |-> [emotion |-> es[i][1], count |-> es[i][2]]]

\* Mutant: every row has a field for each emotion, 0 when the day lacks it.
prepareWeeklyChartDataZeroFilled ==
    IF weeklyStats = Null THEN <<>>
    ELSE [i \in DOMAIN weeklyStats.daily_stats |->
            LET stat == weeklyStats.daily_stats[i]
                zeroes == [j \in 1..2 |-> [key |-> <<"joy", "sad">>[j], value |-> 0]]
            IN  Spread(Spread(<<[key |-> "day", value |-> FormatEEE(stat.date)],
                                [key |-> "date", value |-> stat.date]>>, zeroes),
                       stat.emotion_distribution)]

\* prepareWeeklyChartData: a row is an object, the sequence of its
\* properties.
prepareWeeklyChartData ==
    IF weeklyStats = Null THEN <<>>
    ELSE [i \in DOMAIN weeklyStats.daily_stats |->
            LET stat == weeklyStats.daily_stats[i]
            IN  Spread(<<[key |-> "day", value |-> FormatEEE(stat.date)],
                         [key |-> "date", value |-> stat.date]>>,
                       stat.emotion_distribution)]

\* Mutant: the stored fraction is passed on as it is.
prepareMonthlyChartDataRaw ==
    IF monthlyStats = Null THEN <<>>
    ELSE LET es == Entries(monthlyStats.emotion_patterns)
         IN  [i \in DOMAIN es |-> [emotion |-> es[i][1], percentage |-> es[i][2]]]

\* prepareMonthlyChartData
prepareMonthlyChartData ==
    IF monthlyStats = Null THEN <<>>
    ELSE LET es == Entries(monthlyStats.emotion_patterns)
         IN  [i \in DOMAIN es |-> [emotion |-> es[i][1], percentage |-> es[i][2] * 100]]

\* The fill of the cells of the daily pie, one for each row.
dailyCellFill == [i \in DOMAIN prepareDailyChartData |-> ColorAt(i - 1)]

\* The emotions of the lines of the weekly chart and the stroke of each.
weeklyLines == IF weeklyStats = Null THEN <<>> ELSE Keys(weeklyStats.emotion_trend)
weeklyLineStroke == [i \in DOMAIN weeklyLines |-> ColorAt(i - 1)]

\* The colour the daily pie, the weekly chart, gives emotion e: undefined
\* when the chart has nothing for e.
DailyFillOf(e) ==
    LET rows == prepareDailyChartData
    IN  IF \E i \in DOMAIN rows : rows[i].emotion = e
        THEN Some(dailyCellFill[CHOOSE i \in DOMAIN rows : rows[i].emotion = e])
        ELSE Undefined

WeeklyStrokeOf(e) ==
    IF \E i \in DOMAIN weeklyLines : weeklyLines[i] = e
    THEN Some(weeklyLineStroke[CHOOSE i \in DOMAIN weeklyLines : weeklyLines[i] = e])
    ELSE Undefined

Tabs == {"daily", "weekly", "monthly"}

\* The period loadStats asks the watch analytics for.
PeriodOf(tab) ==
    CASE tab = "daily" -> "day"
      [] tab = "weekly" -> "week"
      [] tab = "monthly" -> "month"

\* loadStats as the effect calls it: it has captured the activeTab of the
\* render that ran the effect.
StatsClosure(tab) == [page |-> "stats", fn |-> "loadStats", tab |-> tab]

\* loadStats up to its await: setLoading(true), then the two fetches of the tab
LoadStats(c) ==
    /\ inflight' = inflight (+) SetToBag({c})
    /\ issued' = issued + 1
    /\ loading' = TRUE

\* First render and effect run of StatsPage; the effect has no timer and no
\* cleanup.
MountStats ==
    /\ page = "none"
    /\ page' = "stats"
    /\ mounted' = TRUE
    /\ LoadStats(StatsClosure(activeTab))
    /\ event' = Ev("mount", TRUE, Null)
    /\ UNCHANGED <<timers, misses, now, response, period, latestData, prediction,
                   hrHistory, appended, analytics, dailyStats, healthData>>
    /\ UNCHANGED diaryVars
    /\ UNCHANGED statsVars
    /\ UNCHANGED formVars

\* Mutant: the tabs are rendered while loading is true as well.
SetActiveTabWhileLoading(tab) ==
    /\ mounted
    /\ page = "stats"
    /\ tab # activeTab
    /\ issued < MaxLoads
    /\ BagCardinality(inflight) < MaxInflight
    /\ activeTab' = tab
    /\ inflight' = inflight (+) SetToBag({[page |-> "stats", fn |-> "loadStats", tab |-> tab]})
    /\ issued' = issued + 1
    /\ loading' = TRUE
    /\ event' = Ev("setActiveTab", TRUE, Null)
    /\ UNCHANGED <<page, mounted, timers, misses, now, response, period,
                   latestData, prediction, hrHistory, appended, analytics,
                   dailyStats, healthData>>
    /\ UNCHANGED diaryVars
    /\ UNCHANGED <<weeklyStats, monthlyStats, dailyWatchAnalytics,
                   weeklyWatchAnalytics, monthlyWatchAnalytics>>
    /\ UNCHANGED formVars

\* A click on a tab: the effect depends on [activeTab] and runs loadStats
\* again.  While loading is true the page renders no tabs.
SetActiveTab(tab) ==
    /\ mounted
    /\ page = "stats"
    /\ ~loading
    /\ tab # activeTab
    /\ issued < MaxLoads
    /\ BagCardinality(inflight) < MaxInflight
    /\ activeTab' = tab
    /\ LoadStats(StatsClosure(tab))
    /\ event' = Ev("setActiveTab", TRUE, Null)
    /\ UNCHANGED <<page, mounted, timers, misses, now, response, period,
                   latestData, prediction, hrHistory, appended, analytics,
                   dailyStats, healthData>>
    /\ UNCHANGED diaryVars
    /\ UNCHANGED <<weeklyStats, monthlyStats, dailyWatchAnalytics,
                   weeklyWatchAnalytics, monthlyWatchAnalytics>>
    /\ UNCHANGED formVars

\* StatsPage is torn down.
UnmountStats ==
    /\ mounted
    /\ page = "stats"
    /\ mounted' = FALSE
    /\ event' = Ev("unmount", TRUE, Null)
    /\ UNCHANGED <<page, timers, inflight, issued, misses, now, response, period,
                   loading, latestData, prediction, hrHistory, appended,
                   analytics, dailyStats, healthData>>
    /\ UNCHANGED diaryVars
    /\ UNCHANGED statsVars
    /\ UNCHANGED formVars

\* Mutant: the slots of the other tabs are reset.
SetStatsResetOthers(c, stats, watch) ==
    /\ dailyStats' = IF c.tab = "daily" THEN SetState(dailyStats, stats) ELSE Null
    /\ dailyWatchAnalytics' = IF c.tab = "daily" THEN SetState(dailyWatchAnalytics, watch)
                                                 ELSE Null
    /\ weeklyStats' = IF c.tab = "weekly" THEN SetState(weeklyStats, stats) ELSE Null
    /\ weeklyWatchAnalytics' = IF c.tab = "weekly" THEN SetState(weeklyWatchAnalytics, watch)
                                                   ELSE Null
    /\ monthlyStats' = IF c.tab = "monthly" THEN SetState(monthlyStats, stats) ELSE Null
    /\ monthlyWatchAnalytics' =
           IF c.tab = "monthly" THEN SetState(monthlyWatchAnalytics, watch) ELSE Null

\* The setters of the tab c.tab, called with stats and watch.
SetStats(c, stats, watch) ==
    /\ dailyStats' = IF c.tab = "daily" THEN SetState(dailyStats, stats) ELSE dailyStats
    /\ dailyWatchAnalytics' =
           IF c.tab = "daily" THEN SetState(dailyWatchAnalytics, watch)
                              ELSE dailyWatchAnalytics
    /\ weeklyStats' = IF c.tab = "weekly" THEN SetState(weeklyStats, stats) ELSE weeklyStats
    /\ weeklyWatchAnalytics' =
           IF c.tab = "weekly" THEN SetState(weeklyWatchAnalytics, watch)
                               ELSE weeklyWatchAnalytics
    /\ monthlyStats' = IF c.tab = "monthly" THEN SetState(monthlyStats, stats)
                                             ELSE monthlyStats
    /\ monthlyWatchAnalytics' =
           IF c.tab = "monthly" THEN SetState(monthlyWatchAnalytics, watch)
                                ELSE monthlyWatchAnalytics

\* Mutant: the two fetches are handled one by one, each answer that arrived
\* is stored.
ResolveLoadStatsSettled(c, stats, watch) ==
    /\ c.page = "stats"
    /\ BagIn(c, inflight)
    /\ inflight' = inflight (-) SetToBag({c})
    /\ now' = now + 1
    /\ response' = <<stats, watch>>
    /\ loading' = SetState(loading, FALSE)
    /\ event' = Ev("resolve", stats # Rejected /\ watch # Rejected, c)
    /\ SetStats(c, IF stats # Rejected THEN stats ELSE Null,
                   IF watch # Rejected THEN watch ELSE Null)
    /\ UNCHANGED <<page, mounted, timers, issued, misses, period, latestData,
                   prediction, hrHistory, appended, analytics, healthData>>
    /\ UNCHANGED diaryVars
    /\ UNCHANGED activeTab
    /\ UNCHANGED formVars

\* loadStats from its await on: Promise.all settles with the two answers, or
\* rejects when either fetch does; finally setLoading(false).
ResolveLoadStats(c, stats, watch) ==
    /\ c.page = "stats"
    /\ BagIn(c, inflight)
    /\ inflight' = inflight (-) SetToBag({c})
    /\ now' = now + 1
    /\ response' = <<stats, watch>>
    /\ loading' = SetState(loading, FALSE)
    /\ IF stats # Rejected /\ watch # Rejected
       THEN /\ SetStats(c, stats, watch)
            /\ event' = Ev("resolve", TRUE, c)
       ELSE /\ event' = Ev("resolve", FALSE, c)
            /\ UNCHANGED <<dailyStats, weeklyStats, monthlyStats,
                           dailyWatchAnalytics, weeklyWatchAnalytics,
                           monthlyWatchAnalytics>>
    /\ UNCHANGED <<page, mounted, timers, issued, misses, period, latestData,
                   prediction, hrHistory, appended, analytics, healthData>>
    /\ UNCHANGED diaryVars
    /\ UNCHANGED activeTab
    /\ UNCHANGED formVars

\* The server answers a loadStats, with an aggregate of D, W or M for the
\* tab the invocation has captured.
AnswerLoadStats(D, W, M) ==
    \E c \in BagToSet(inflight) :
        /\ c.page = "stats"
        /\ \E stats \in (CASE c.tab = "daily" -> D
                           [] c.tab = "weekly" -> W
                           [] c.tab = "monthly" -> M) \cup {Rejected},
              watch \in {AnalyticsOf(PeriodOf(c.tab)), Rejected} :
               ResolveLoadStats(c, stats, watch)

ChangeTab == \E tab \in Tabs : SetActiveTab(tab)

StatsResponse == AnswerLoadStats(EmptyDaily, EmptyWeekly, EmptyMonthly)
DailyResponse == AnswerLoadStats(DailyAggregates, EmptyWeekly, EmptyMonthly)
WeeklyResponse == AnswerLoadStats(EmptyDaily, WeeklyAggregates, EmptyMonthly)
MonthlyResponse == AnswerLoadStats(EmptyDaily, EmptyWeekly, MonthlyAggregates)
WeeklyNamedResponse == AnswerLoadStats(EmptyDaily, WeeklyAggregatesNamed, EmptyMonthly)

NextStats ==
    \/ MountStats
    \/ ChangeTab
    \/ UnmountStats
    \/ StatsResponse

\* StatsPage with the daily, the weekly, the monthly aggregate varying.
NextDaily ==
    \/ MountStats
    \/ ChangeTab
    \/ UnmountStats
    \/ DailyResponse

NextWeekly ==
    \/ MountStats
    \/ ChangeTab
    \/ UnmountStats
    \/ WeeklyResponse

NextMonthly ==
    \/ MountStats
    \/ ChangeTab
    \/ UnmountStats
    \/ MonthlyResponse

NextWeeklyNamed ==
    \/ MountStats
    \/ ChangeTab
    \/ UnmountStats
    \/ WeeklyNamedResponse

SpecDaily == Init /\ [][NextDaily]_vars
SpecWeekly == Init /\ [][NextWeekly]_vars
SpecMonthly == Init /\ [][NextMonthly]_vars
SpecWeeklyNamed == Init /\ [][NextWeeklyNamed]_vars

----------------------------------------------------------------------------
\* The submit forms of DiaryPage.

\* The texts typed into the diary textarea, as sequences of characters.
Texts == {<<>>, <<" ">>, <<" ", "a">>}

\* The texts typed into the note textarea.
Notes == {<<>>, <<"a", " ">>}

\* The values of the intensity slider that are tried, of its range 1..10.
Intensities == {5, 8}

\* The EMOTIONS buttons that are tried.
EmotionChoices == {Str("joy")}

\* String.prototype.trim(): the white space at both ends is removed.
RECURSIVE TrimStart(_)
TrimStart(s) ==
    IF s # <<>> /\ Head(s) = " " THEN TrimStart(Tail(s)) ELSE s

RECURSIVE TrimEnd(_)
TrimEnd(s) ==
    IF s # <<>> /\ s[Len(s)] = " " THEN TrimEnd(SubSeq(s, 1, Len(s) - 1)) ELSE s

Trim(s) == TrimEnd(TrimStart(s))

\* What the pages do not share with the forms.
pollData == <<timers, misses, period, latestData, hrHistory, appended,
              analytics, dailyStats, healthData>>

\* POST /diary/entries on the server: the entry gets the next id of its
\* table and the time of the server's clock, and is listed first.
StoreEntry(srv) ==
    LET id == Len(srv.entries) + 1
    IN  [srv EXCEPT !.entries = <<[id |-> id, created_at |-> [sec |-> id, ms |-> 0]]>> \o @]

\* POST /emotions/labels on the server
StoreLabel(srv) ==
    LET id == Len(srv.labels) + 1
    IN  [srv EXCEPT !.labels = <<[id |-> id, timestamp |-> [sec |-> id, ms |-> 500]]>> \o @]

\* An entry written before the page is opened.
EarlierEntry ==
    /\ page = "none"
    /\ Len(server.entries) < MaxEarlier
    /\ server' = StoreEntry(server)
    /\ event' = Ev("earlier", TRUE, Null)
    /\ UNCHANGED <<inputValue, selectedEmotion, intensity, note, moodLoading>>
    /\ UNCHANGED <<page, mounted, inflight, issued, now, response, loading, prediction>>
    /\ UNCHANGED <<pollData, diaryVars, statsVars>>

\* diaryApi.createEntry(content) of a handleDiarySubmit that closed over the
\* entries of its render; answer is <<>> until the server has answered.
CreateEntryCall(content, closure, answer) ==
    [page |-> "diary", fn |-> "createEntry", content |-> content,
     entries |-> closure, answer |-> answer]

\* onChange of the diary textarea, which is disabled while loading
SetInputValue(v) ==
    /\ mounted
    /\ page = "diary"
    /\ ~loading
    /\ v # inputValue
    /\ inputValue' = v
    /\ event' = Ev("setInputValue", TRUE, Null)
    /\ UNCHANGED <<selectedEmotion, intensity, note, moodLoading, server>>
    /\ UNCHANGED <<page, mounted, inflight, issued, now, response, loading, prediction>>
    /\ UNCHANGED <<pollData, diaryVars, statsVars>>

\* Mutant: the guard does not look at loading.
HandleDiarySubmitUnguarded ==
    /\ mounted
    /\ page = "diary"
    /\ issued < MaxSubmits + 2
    /\ IF Trim(inputValue) = <<>>
       THEN /\ event' = Ev("handleDiarySubmit", FALSE, Null)
            /\ UNCHANGED <<inflight, issued, loading>>
       ELSE /\ loading' = TRUE
            /\ inflight' = inflight (+)
                   SetToBag({CreateEntryCall(Trim(inputValue), entries, <<>>)})
            /\ issued' = issued + 1
            /\ event' = Ev("handleDiarySubmit", TRUE, Null)
    /\ UNCHANGED formVars
    /\ UNCHANGED <<page, mounted, now, response, prediction>>
    /\ UNCHANGED <<pollData, diaryVars, statsVars>>

\* handleDiarySubmit up to its await: nothing happens when the trimmed input
\* is empty or a submit is under way.
HandleDiarySubmit ==
    /\ mounted
    /\ page = "diary"
    /\ issued < MaxSubmits + 2
    /\ IF Trim(inputValue) = <<>> \/ loading
       THEN /\ event' = Ev("handleDiarySubmit", FALSE, Null)
            /\ UNCHANGED <<inflight, issued, loading>>
       ELSE /\ loading' = TRUE
            /\ inflight' = inflight (+)
                   SetToBag({CreateEntryCall(Trim(inputValue), entries, <<>>)})
            /\ issued' = issued + 1
            /\ event' = Ev("handleDiarySubmit", TRUE, Null)
    /\ UNCHANGED formVars
    /\ UNCHANGED <<page, mounted, now, response, prediction>>
    /\ UNCHANGED <<pollData, diaryVars, statsVars>>

\* The server answers a createEntry: it stores the entry and answers with
\* it, or it fails and stores nothing.
ServeCreateEntry(c, ok) ==
    /\ BagIn(c, inflight)
    /\ c.fn = "createEntry"
    /\ c.answer = <<>>
    /\ LET stored == StoreEntry(server)
           answer == IF ok THEN Head(stored.entries) ELSE Rejected
       IN  /\ server' = IF ok THEN stored ELSE server
           /\ inflight' = (inflight (-) SetToBag({c}))
                              (+) SetToBag({[c EXCEPT !.answer = <<answer>>]})
    /\ event' = Ev("createEntry", ok, Null)
    /\ UNCHANGED <<inputValue, selectedEmotion, intensity, note, moodLoading>>
    /\ UNCHANGED <<page, mounted, issued, now, response, loading, prediction>>
    /\ UNCHANGED <<pollData, diaryVars, statsVars>>

\* Mutant: setEntries(prev => [newEntry, ...prev])
ResolveCreateEntryFunctional(c) ==
    /\ BagIn(c, inflight)
    /\ c.fn = "createEntry"
    /\ c.answer # <<>>
    /\ inflight' = inflight (-) SetToBag({c})
    /\ now' = now + 1
    /\ response' = c.answer
    /\ IF c.answer[1] # Rejected
       THEN /\ entries' = SetState(entries, <<c.answer[1]>> \o entries)
            /\ inputValue' = SetState(inputValue, <<>>)
            /\ event' = Ev("handleDiarySubmit", TRUE, Null)
       ELSE /\ event' = Ev("handleDiarySubmit", FALSE, Null)
            /\ UNCHANGED <<entries, inputValue>>
    /\ loading' = SetState(loading, FALSE)
    /\ UNCHANGED <<selectedEmotion, intensity, note, moodLoading, server>>
    /\ UNCHANGED <<page, mounted, issued, prediction, todayLabels>>
    /\ UNCHANGED <<pollData, statsVars>>

\* handleDiarySubmit from its await on: the new entry is put in front of the
\* entries the handler closed over and the textarea is cleared, or the
\* failure is reported; loading is reset either way.
ResolveCreateEntry(c) ==
    /\ BagIn(c, inflight)
    /\ c.fn = "createEntry"
    /\ c.answer # <<>>
    /\ inflight' = inflight (-) SetToBag({c})
    /\ now' = now + 1
    /\ response' = c.answer
    /\ IF c.answer[1] # Rejected
       THEN /\ entries' = SetState(entries, <<c.answer[1]>> \o c.entries)
            /\ inputValue' = SetState(inputValue, <<>>)
            /\ event' = Ev("handleDiarySubmit", TRUE, Null)
       ELSE /\ event' = Ev("handleDiarySubmit", FALSE, Null)
            /\ UNCHANGED <<entries, inputValue>>
    /\ loading' = SetState(loading, FALSE)
    /\ UNCHANGED <<selectedEmotion, intensity, note, moodLoading, server>>
    /\ UNCHANGED <<page, mounted, issued, prediction, todayLabels>>
    /\ UNCHANGED <<pollData, statsVars>>

\* onClick of an emotion button
SetSelectedEmotion(e) ==
    /\ mounted
    /\ page \in {"diary", "mood"}
    /\ e # selectedEmotion
    /\ selectedEmotion' = e
    /\ event' = Ev("setSelectedEmotion", TRUE, Null)
    /\ UNCHANGED <<inputValue, intensity, note, moodLoading, server>>
    /\ UNCHANGED <<page, mounted, inflight, issued, now, response, loading, prediction>>
    /\ UNCHANGED <<pollData, diaryVars, statsVars>>

\* onChange of the intensity slider
SetIntensity(n) ==
    /\ mounted
    /\ page \in {"diary", "mood"}
    /\ n # intensity
    /\ intensity' = n
    /\ event' = Ev("setIntensity", TRUE, Null)
    /\ UNCHANGED <<inputValue, selectedEmotion, note, moodLoading, server>>
    /\ UNCHANGED <<page, mounted, inflight, issued, now, response, loading, prediction>>
    /\ UNCHANGED <<pollData, diaryVars, statsVars>>

\* onChange of the note textarea
SetNote(v) ==
    /\ mounted
    /\ page \in {"diary", "mood"}
    /\ v # note
    /\ note' = v
    /\ event' = Ev("setNote", TRUE, Null)
    /\ UNCHANGED <<inputValue, selectedEmotion, intensity, moodLoading, server>>
    /\ UNCHANGED <<page, mounted, inflight, issued, now, response, loading, prediction>>
    /\ UNCHANGED <<pollData, diaryVars, statsVars>>

\* { emotion: selectedEmotion, intensity: intensity / 10,
\*   note: note.trim() || undefined }
LabelData ==
    [emotion |-> selectedEmotion,
     intensity |-> [num |-> intensity, den |-> 10],
     note |-> IF Trim(note) = <<>> THEN Undefined ELSE Some(Trim(note))]

\* emotionApi.createEmotionLabel(data) of the submit handler of page pg;
\* answer is <<>> until the server has answered.
CreateLabelCall(pg, data, answer) ==
    [page |-> pg, fn |-> "createEmotionLabel", data |-> data, answer |-> answer]

\* The loadTodayLabels a submit handler awaits after its label is stored.
ReloadCall(pg) == [page |-> pg, fn |-> "loadTodayLabels", caller |-> "submit"]

\* handleMoodSubmit up to its first await: nothing happens when no emotion is
\* selected or a submit is under way.
HandleMoodSubmit ==
    /\ mounted
    /\ page = "diary"
    /\ issued < MaxSubmits + 2
    /\ IF selectedEmotion = Null \/ moodLoading
       THEN /\ event' = Ev("handleMoodSubmit", FALSE, Null)
            /\ UNCHANGED <<inflight, issued, moodLoading>>
       ELSE /\ moodLoading' = TRUE
            /\ inflight' = inflight (+)
                   SetToBag({CreateLabelCall("diary", LabelData, <<>>)})
            /\ issued' = issued + 1
            /\ event' = Ev("handleMoodSubmit", TRUE, Null)
    /\ UNCHANGED <<inputValue, selectedEmotion, intensity, note, server>>
    /\ UNCHANGED <<page, mounted, now, response, loading, prediction>>
    /\ UNCHANGED <<pollData, diaryVars, statsVars>>

\* The server answers a createEmotionLabel: it stores the label and answers
\* with it, or it fails and stores nothing.
ServeCreateLabel(c, ok) ==
    /\ BagIn(c, inflight)
    /\ c.fn = "createEmotionLabel"
    /\ c.answer = <<>>
    /\ LET stored == StoreLabel(server)
           answer == IF ok THEN Head(stored.labels) ELSE Rejected
       IN  /\ server' = IF ok THEN stored ELSE server
           /\ inflight' = (inflight (-) SetToBag({c}))
                              (+) SetToBag({[c EXCEPT !.answer = <<answer>>]})
    /\ event' = Ev("createEmotionLabel", ok, Null)
    /\ UNCHANGED <<inputValue, selectedEmotion, intensity, note, moodLoading>>
    /\ UNCHANGED <<page, mounted, issued, now, response, loading, prediction>>
    /\ UNCHANGED <<pollData, diaryVars, statsVars>>

\* Mutant: the catch block resets the form too.
ResolveCreateLabelResetting(c) ==
    /\ BagIn(c, inflight)
    /\ c.page = "diary"
    /\ c.fn = "createEmotionLabel"
    /\ c.answer # <<>>
    /\ now' = now + 1
    /\ response' = c.answer
    /\ IF c.answer[1] # Rejected
       THEN /\ selectedEmotion' = SetState(selectedEmotion, Null)
            /\ intensity' = SetState(intensity, 5)
            /\ note' = SetState(note, <<>>)
            /\ inflight' = (inflight (-) SetToBag({c})) (+) SetToBag({ReloadCall("diary")})
            /\ issued' = issued + 1
            /\ event' = Ev("handleMoodSubmit", TRUE, Null)
            /\ UNCHANGED moodLoading
       ELSE /\ inflight' = inflight (-) SetToBag({c})
            /\ moodLoading' = SetState(moodLoading, FALSE)
            /\ event' = Ev("handleMoodSubmit", FALSE, Null)
            /\ selectedEmotion' = SetState(selectedEmotion, Null)
            /\ intensity' = SetState(intensity, 5)
            /\ note' = SetState(note, <<>>)
            /\ UNCHANGED issued
    /\ UNCHANGED <<inputValue, server>>
    /\ UNCHANGED <<page, mounted, loading, prediction>>
    /\ UNCHANGED <<pollData, diaryVars, statsVars>>

\* handleMoodSubmit from its first await on: the form is reset and the labels
\* are loaded again, or the failure is reported and moodLoading is reset.
ResolveCreateLabel(c) ==
    /\ BagIn(c, inflight)
    /\ c.page = "diary"
    /\ c.fn = "createEmotionLabel"
    /\ c.answer # <<>>
    /\ now' = now + 1
    /\ response' = c.answer
    /\ IF c.answer[1] # Rejected
       THEN /\ selectedEmotion' = SetState(selectedEmotion, Null)
            /\ intensity' = SetState(intensity, 5)
            /\ note' = SetState(note, <<>>)
            /\ inflight' = (inflight (-) SetToBag({c})) (+) SetToBag({ReloadCall("diary")})
            /\ issued' = issued + 1
            /\ event' = Ev("handleMoodSubmit", TRUE, Null)
            /\ UNCHANGED moodLoading
       ELSE /\ inflight' = inflight (-) SetToBag({c})
            /\ moodLoading' = SetState(moodLoading, FALSE)
            /\ event' = Ev("handleMoodSubmit", FALSE, Null)
            /\ UNCHANGED <<selectedEmotion, intensity, note, issued>>
    /\ UNCHANGED <<inputValue, server>>
    /\ UNCHANGED <<page, mounted, loading, prediction>>
    /\ UNCHANGED <<pollData, diaryVars, statsVars>>

\* handleMoodSubmit from its second await on: loadTodayLabels has set the
\* labels or caught its failure, and moodLoading is reset.
ResolveReload(labels) ==
    /\ BagIn(ReloadCall("diary"), inflight)
    /\ inflight' = inflight (-) SetToBag({ReloadCall("diary")})
    /\ now' = now + 1
    /\ response' = <<labels>>
    /\ IF labels # Rejected
       THEN /\ todayLabels' = SetState(todayLabels, labels.list)
            /\ event' = Ev("loadTodayLabels", TRUE, Null)
       ELSE /\ event' = Ev("loadTodayLabels", FALSE, Null)
            /\ UNCHANGED todayLabels
    /\ moodLoading' = SetState(moodLoading, FALSE)
    /\ UNCHANGED <<inputValue, selectedEmotion, intensity, note, server>>
    /\ UNCHANGED <<page, mounted, issued, loading, prediction, entries>>
    /\ UNCHANGED <<pollData, statsVars>>

\* What GET /diary/entries and GET /emotions/labels answer with.
ServedEntries == [tag |-> "DiaryEntry[]", list |-> server.entries]
ServedLabels == [tag |-> "EmotionLabel[]", list |-> server.labels]

TypeEntry == \E v \in Texts : SetInputValue(v)

FillMoodForm ==
    \/ \E e \in EmotionChoices : SetSelectedEmotion(e)
    \/ \E n \in Intensities : SetIntensity(n)
    \/ \E v \in Notes : SetNote(v)

CreateEntryAnswer ==
    \E c \in BagToSet(inflight) : \E ok \in BOOLEAN : ServeCreateEntry(c, ok)

CreateEntryResponse == \E c \in BagToSet(inflight) : ResolveCreateEntry(c)

CreateLabelAnswer ==
    \E c \in BagToSet(inflight) : \E ok \in BOOLEAN : ServeCreateLabel(c, ok)

CreateLabelResponse == \E c \in BagToSet(inflight) : ResolveCreateLabel(c)

ServedEntriesResponse == \E data \in {ServedEntries, Rejected} : ResolveLoadEntries(data)

ServedLabelsResponse == \E labels \in {ServedLabels, Rejected} : ResolveLoadTodayLabels(labels)

ReloadResponse == \E labels \in {ServedLabels, Rejected} : ResolveReload(labels)

NextDiaryForms ==
    \/ EarlierEntry
    \/ MountDiary
    \/ UnmountDiary
    \/ ServedEntriesResponse
    \/ ServedLabelsResponse
    \/ TypeEntry
    \/ HandleDiarySubmit
    \/ CreateEntryAnswer
    \/ CreateEntryResponse
    \/ FillMoodForm
    \/ HandleMoodSubmit
    \/ CreateLabelAnswer
    \/ CreateLabelResponse
    \/ ReloadResponse

SpecDiaryForms == Init /\ [][NextDiaryForms]_vars

----------------------------------------------------------------------------
\* MoodPage.

\* A request of MoodPage; caller tells the call of the mount effect from the
\* call the submit handler awaits.
MoodCall(fn, caller) == [page |-> "mood", fn |-> fn, caller |-> caller]

\* MoodPage is mounted: its effect calls loadTodayLabels and loadPrediction.
MountMood ==
    /\ page = "none"
    /\ page' = "mood"
    /\ mounted' = TRUE
    /\ inflight' = inflight (+) SetToBag({MoodCall("loadTodayLabels", "effect")})
                            (+) SetToBag({MoodCall("loadPrediction", "effect")})
    /\ issued' = issued + 2
    /\ loading' = FALSE
    /\ event' = Ev("mount", TRUE, Null)
    /\ UNCHANGED <<now, response, prediction>>
    /\ UNCHANGED <<pollData, diaryVars, statsVars, formVars>>

\* MoodPage is torn down; it has no effect cleanup.
UnmountMood ==
    /\ mounted
    /\ page = "mood"
    /\ mounted' = FALSE
    /\ event' = Ev("unmount", TRUE, Null)
    /\ UNCHANGED <<page, inflight, issued, now, response, loading, prediction>>
    /\ UNCHANGED <<pollData, diaryVars, statsVars, formVars>>

\* handleSubmit up to its first await: nothing happens when no emotion is
\* selected or a submit is under way.
HandleSubmit ==
    /\ mounted
    /\ page = "mood"
    /\ issued < MaxSubmits + 2
    /\ IF selectedEmotion = Null \/ loading
       THEN /\ event' = Ev("handleSubmit", FALSE, Null)
            /\ UNCHANGED <<inflight, issued, loading>>
       ELSE /\ loading' = TRUE
            /\ inflight' = inflight (+)
                   SetToBag({CreateLabelCall("mood", LabelData, <<>>)})
            /\ issued' = issued + 1
            /\ event' = Ev("handleSubmit", TRUE, Null)
    /\ UNCHANGED <<page, mounted, now, response, prediction>>
    /\ UNCHANGED <<pollData, diaryVars, statsVars, formVars>>

\* handleSubmit from its first await on: the form is reset and the labels
\* are loaded again, or the failure is reported and loading is reset.
ResolveCreateLabelMood(c) ==
    /\ BagIn(c, inflight)
    /\ c.page = "mood"
    /\ c.fn = "createEmotionLabel"
    /\ c.answer # <<>>
    /\ now' = now + 1
    /\ response' = c.answer
    /\ IF c.answer[1] # Rejected
       THEN /\ selectedEmotion' = SetState(selectedEmotion, Null)
            /\ intensity' = SetState(intensity, 5)
            /\ note' = SetState(note, <<>>)
            /\ inflight' = (inflight (-) SetToBag({c}))
                               (+) SetToBag({MoodCall("loadTodayLabels", "submit")})
            /\ issued' = issued + 1
            /\ event' = Ev("handleSubmit", TRUE, Null)
            /\ UNCHANGED loading
       ELSE /\ inflight' = inflight (-) SetToBag({c})
            /\ loading' = SetState(loading, FALSE)
            /\ event' = Ev("handleSubmit", FALSE, Null)
            /\ UNCHANGED <<selectedEmotion, intensity, note, issued>>
    /\ UNCHANGED <<inputValue, moodLoading, server>>
    /\ UNCHANGED <<page, mounted, prediction>>
    /\ UNCHANGED <<pollData, diaryVars, statsVars>>

\* loadTodayLabels from its await on; the one handleSubmit awaits is
\* followed by loadPrediction.
ResolveMoodLabels(c, labels) ==
    /\ BagIn(c, inflight)
    /\ c.page = "mood"
    /\ c.fn = "loadTodayLabels"
    /\ now' = now + 1
    /\ response' = <<labels>>
    /\ IF labels # Rejected
       THEN /\ todayLabels' = SetState(todayLabels, labels.list)
            /\ event' = Ev("loadTodayLabels", TRUE, Null)
       ELSE /\ event' = Ev("loadTodayLabels", FALSE, Null)
            /\ UNCHANGED todayLabels
    /\ IF c.caller = "submit"
       THEN /\ inflight' = (inflight (-) SetToBag({c}))
                               (+) SetToBag({MoodCall("loadPrediction", "submit")})
            /\ issued' = issued + 1
       ELSE /\ inflight' = inflight (-) SetToBag({c})
            /\ UNCHANGED issued
    /\ UNCHANGED <<page, mounted, loading, prediction, entries>>
    /\ UNCHANGED <<pollData, statsVars, formVars>>

\* loadPrediction from its await on; after the one handleSubmit awaits,
\* loading is reset.
ResolveMoodPrediction(c, pred) ==
    /\ BagIn(c, inflight)
    /\ c.page = "mood"
    /\ c.fn = "loadPrediction"
    /\ inflight' = inflight (-) SetToBag({c})
    /\ now' = now + 1
    /\ response' = <<pred>>
    /\ IF pred # Rejected
       THEN /\ prediction' = SetState(prediction, pred)
            /\ event' = Ev("loadPrediction", TRUE, Null)
       ELSE /\ event' = Ev("loadPrediction", FALSE, Null)
            /\ UNCHANGED prediction
    /\ loading' = IF c.caller = "submit" THEN SetState(loading, FALSE) ELSE loading
    /\ UNCHANGED <<page, mounted, issued>>
    /\ UNCHANGED <<pollData, diaryVars, statsVars, formVars>>

CreateLabelMoodResponse == \E c \in BagToSet(inflight) : ResolveCreateLabelMood(c)

MoodLabelsResponse ==
    \E c \in BagToSet(inflight) : \E labels \in {ServedLabels, Rejected} :
        ResolveMoodLabels(c, labels)

MoodPredictionResponse ==
    \E c \in BagToSet(inflight) : \E pred \in Predictions \cup {Rejected} :
        ResolveMoodPrediction(c, pred)

NextMoodForms ==
    \/ MountMood
    \/ UnmountMood
    \/ FillMoodForm
    \/ HandleSubmit
    \/ CreateLabelAnswer
    \/ CreateLabelMoodResponse
    \/ MoodLabelsResponse
    \/ MoodPredictionResponse

NextForms == NextDiaryForms \/ NextMoodForms

SpecForms == Init /\ [][NextForms]_vars

----------------------------------------------------------------------------
MountPage == \E pg \in Pages : Mount(pg)

TimerTick == \E t \in BagToSet(timers) : Tick(t)

ChangePeriod == \E p \in Periods : SetPeriod(p)

RealtimeResponse ==
    \E c \in BagToSet(inflight) :
        \E latest \in WatchDataValues \cup {Rejected},
           pred \in Predictions \cup {Rejected} :
            ResolveRealtime(c, latest, pred)

WatchResponse ==
    \E c \in BagToSet(inflight) :
        /\ c.page = "watch"
        /\ \E analyticsData \in {AnalyticsOf(c.period), Rejected},
              latest \in WatchDataValues \cup {Rejected} :
               ResolveWatch(c, analyticsData, latest)

HomeResponse ==
    \E c \in BagToSet(inflight) :
        \E stats \in DailyStatsValues \cup {Rejected},
           health \in HealthLists \cup {Rejected} :
            ResolveHome(c, stats, health)

Next ==
    \/ MountPage
    \/ TimerTick
    \/ Unmount
    \/ ChangePeriod
    \/ RealtimeResponse
    \/ WatchResponse
    \/ HomeResponse

Spec == Init /\ [][Next]_vars

\* The polling pages and StatsPage.
NextPages == Next \/ NextStats

SpecPages == Init /\ [][NextPages]_vars

----------------------------------------------------------------------------
\* RealtimePage: the probabilities shown with the prediction.

\* Mutant: the comparator breaks a tie by the key, the later key first.
CompareProbabilityThenKey(a, b) ==
    IF b[2] # a[2] THEN b[2] - a[2]
    ELSE IF a[1] = b[1] THEN 0
    ELSE IF a[1] = "a" \/ (a[1] = "b" /\ b[1] # "a") \/ (a[1] = "c" /\ b[1] = "d")
         THEN 1 ELSE -1

\* ([, a], [, b]) => b - a
CompareProbability(a, b) == b[2] - a[2]

\* Array.prototype.sort is stable: x goes behind the entries that do not
\* compare greater than it.
RECURSIVE InsertRanked(_, _)
InsertRanked(x, sorted) ==
    IF sorted = <<>> THEN <<x>>
    ELSE IF CompareProbability(Head(sorted), x) <= 0
         THEN <<Head(sorted)>> \o InsertRanked(x, Tail(sorted))
         ELSE <<x>> \o sorted

RECURSIVE SortRankedFrom(_, _)
SortRankedFrom(sorted, rest) ==
    IF rest = <<>> THEN sorted
    ELSE SortRankedFrom(InsertRanked(Head(rest), sorted), Tail(rest))

\* Mutant: a placeholder row stands for an empty distribution.
RankedPadded(probabilities, k) ==
    IF probabilities = <<>> THEN <<<<"none", 0>>>>
    ELSE SliceFirst(SortRankedFrom(<<>>, Entries(probabilities)), k)

\* Object.entries(probabilities).sort(...).slice(0, k)
Ranked(probabilities, k) ==
    SliceFirst(SortRankedFrom(<<>>, Entries(probabilities)), k)

\* The rows of prediction-probabilities; the card is rendered when
\* prediction is not null.
probabilityItems ==
    IF prediction = Null THEN <<>> ELSE Ranked(prediction.probabilities, TopK)

\* The predictions the server returns: probabilities in tenths of a percent
\* over up to MaxProbabilities emotions.
RankedPredictions ==
    {[tag |-> "EmotionPrediction", emotion |-> "calm", probabilities |-> pr] :
        pr \in Mappings({"a", "b", "c", "d"}, {100, 500}, MaxProbabilities)}

MountRealtime == Mount("realtime")

PredictionResponse ==
    \E c \in BagToSet(inflight) :
        \E pred \in RankedPredictions \cup {Rejected} :
            ResolveRealtime(c, Null, pred)

\* RealtimePage up to its first timer tick, the watch having no data.
NextRank ==
    \/ MountRealtime
    \/ Unmount
    \/ PredictionResponse

SpecRank == Init /\ [][NextRank]_vars

----------------------------------------------------------------------------
\* Properties.

\* A step that handles a fetch response.
IsResponse == now' = now + 1

\* The number of copies of c in bag b.
Copies(c, b) == IF BagIn(c, b) THEN CopiesIn(c, b) ELSE 0

\* C1: in WatchPage a response of a loadData whose period is no longer the
\* selected one (the period was changed while it was in flight) is discarded:
\* handling it changes neither analytics nor latestData.
C1_StaleResponseDiscarded ==
    [][(/\ page = "watch"
        /\ mounted
        /\ IsResponse
        /\ event'.data.period # period)
       => UNCHANGED <<analytics, latestData>>]_vars

C3_WindowBounded == Len(hrHistory) <= Capacity

\* The window is full and points have been evicted from it.
C3_Witness == Len(hrHistory) = Capacity /\ Len(appended) > Capacity

\* C4: once 20 points have been appended the window holds exactly the 20
\* newest: each further push evicts one element, the oldest, so after 21
\* pushes the first element is the 2nd point pushed.
C4_OldestEvicted ==
    Len(appended) >= Capacity =>
        /\ Len(hrHistory) = Capacity
        /\ hrHistory[1] = appended[Len(appended) - Capacity + 1]

\* 21 points have been pushed into the window that started empty.
C4_Witness ==
    /\ Len(appended) = Capacity + 1
    /\ hrHistory[1] = appended[2]
    /\ hrHistory[1] # appended[1]

\* The sample carries no tracked metric: it is null or has no heart_rate.
MetricAbsent(latest) == latest = Null \/ latest.heart_rate = Undefined

\* C5: a RealtimePage refresh whose sample is null or has no heart_rate
\* leaves hrHistory as it was.
C5_AbsentMetricNoPush ==
    [][(/\ page = "realtime"
        /\ IsResponse
        /\ event'.ok
        /\ MetricAbsent(event'.data))
       => hrHistory' = hrHistory]_vars

\* A refresh without heart rate was handled while the window held points.
C5_Witness ==
    /\ page = "realtime"
    /\ mounted
    /\ event.kind = "resolve"
    /\ event.ok
    /\ MetricAbsent(event.data)
    /\ latestData = event.data
    /\ Len(hrHistory) > 0

\* C6: allEntries is ordered by timestamp descending.
C6_TimelineDescending ==
    LET all == allEntries
    IN  \A i \in 1..(Len(all) - 1) :
            GetTime(all[i].timestamp) >= GetTime(all[i + 1].timestamp)

\* Both lists are loaded, and the entries did not arrive in descending order.
C6_Witness ==
    /\ Len(entries) >= 2
    /\ Len(todayLabels) >= 1
    /\ GetTime(entries[1].created_at) < GetTime(entries[2].created_at)
    /\ Len(allEntries) = Len(entries) + Len(todayLabels)

\* C7: of a diary record and a mood-label record with equal timestamps, the
\* diary record comes first in allEntries.
C7_DiaryBeforeMood ==
    LET all == allEntries
    IN  \A i \in DOMAIN all, j \in DOMAIN all :
            (/\ all[i].type = "diary"
             /\ all[j].type = "mood"
             /\ GetTime(all[i].timestamp) = GetTime(all[j].timestamp))
            => i < j

\* A diary entry and a mood label carry the same timestamp.
C7_Witness ==
    \E i \in DOMAIN entries, j \in DOMAIN todayLabels :
        GetTime(entries[i].created_at) = GetTime(todayLabels[j].timestamp)

\* No two records, of either list, share a timestamp.
DistinctTimestamps ==
    LET all == TagDiary(entries) \o TagMood(todayLabels)
    IN  \A i \in DOMAIN all, j \in DOMAIN all :
            i # j => GetTime(all[i].timestamp) # GetTime(all[j].timestamp)

\* C8: when no two records share a timestamp, merging the diary records
\* with the mood records and merging the mood records with the diary
\* records give the same sequence.
C8_MergeCommutes ==
    DistinctTimestamps =>
        Merge(TagDiary(entries), TagMood(todayLabels))
            = Merge(TagMood(todayLabels), TagDiary(entries))

\* Records of both kinds, all timestamps distinct, a mood label the newest.
C8_Witness ==
    /\ DistinctTimestamps
    /\ Len(entries) >= 2
    /\ Len(todayLabels) >= 1
    /\ allEntries[1].type = "mood"

\* C9: the mount of a polling page invokes loadData once and starts one
\* timer of the page's interval that calls loadData; every tick of the
\* timer invokes loadData once more; the timer stays active for as long as
\* the page is mounted.
C9_ImmediateThenPeriodic ==
    /\ [](mounted /\ page \in Pages =>
            timers = SetToBag({Timer(Closure(page, period))}))
    /\ [][(page = "none" /\ page' \in Pages) =>
            /\ issued' = issued + 1
            /\ inflight' = SetToBag({Closure(page', period')})
            /\ timers' = SetToBag({[callback |-> Closure(page', period'),
                                    ms |-> Interval(page')]})]_vars
    /\ [][(page \in Pages /\ event'.kind = "tick") =>
            /\ mounted
            /\ issued' = issued + 1
            /\ inflight' = inflight (+) SetToBag({Closure(page, period)})]_vars

\* A mounted page has been refreshed on activation and by two ticks.
C9_Witness ==
    /\ page = "realtime"
    /\ mounted
    /\ event.kind = "tick"
    /\ issued = 3

\* C10: after the unmount no timer is active and no loadData is invoked;
\* after a period change the timer of the previous period is gone, and
\* every loadData invoked is the one of the selected period.
C10_StoppedScheduleSilent ==
    /\ [](~mounted => timers = EmptyBag)
    /\ [](\A t \in BagToSet(timers) : t.callback = Closure(page, period))
    /\ [][(page \in Pages /\ ~mounted) => issued' = issued]_vars
    /\ [][\A c \in BagToSet(inflight') :
            Copies(c, inflight') > Copies(c, inflight)
                => c = Closure(page', period')]_vars

\* A WatchPage whose period was changed, and which ticked, is unmounted.
C10_Witness ==
    /\ page = "watch"
    /\ ~mounted
    /\ period # "day"
    /\ issued >= 3
    /\ inflight = EmptyBag

\* C11: at most one interval timer is active at any time, in WatchPage the
\* one of the selected period, and a tick invokes loadData for the selected
\* period only.
C11_SingleSchedule ==
    /\ [](BagCardinality(timers) <= 1)
    /\ [](page = "watch" =>
            \A t \in BagToSet(timers) : t.callback.period = period)
    /\ [][(page = "watch" /\ event'.kind = "tick") =>
            /\ period' = period
            /\ inflight' = inflight (+) SetToBag({Closure("watch", period)})]_vars

\* After a period change the timer of the new period has ticked.
C11_Witness ==
    /\ page = "watch"
    /\ mounted
    /\ event.kind = "tick"
    /\ period = "month"
    /\ BagIn(Closure("watch", "month"), inflight)
    /\ BagCardinality(timers) = 1

\* C12: a loadData invoked while another is in flight is issued all the
\* same, handling one response leaves the other invocations in flight, and
\* every successful response handled while mounted writes its own values
\* to the snapshot slots, so the slots hold the values of the response
\* handled last.
C12_LastWriteWins ==
    /\ [][(page \in Pages /\ event'.kind \in {"tick", "setPeriod"}) =>
            BagCardinality(inflight') = BagCardinality(inflight) + 1]_vars
    /\ [][(page \in Pages /\ IsResponse) =>
            BagCardinality(inflight') = BagCardinality(inflight) - 1]_vars
    /\ [][(/\ page = "realtime" /\ mounted /\ IsResponse
           /\ response'[1] # Rejected /\ response'[2] # Rejected) =>
            /\ latestData' = response'[1]
            /\ prediction' = response'[2]]_vars
    /\ [][(/\ page = "watch" /\ mounted /\ IsResponse
           /\ response'[1] # Rejected /\ response'[2] # Rejected) =>
            /\ analytics' = response'[1]
            /\ latestData' = response'[2]]_vars

\* Two refreshes overlapped: the second was issued before any response, one
\* response has been handled with success and the other is still in flight.
C12_Witness ==
    /\ page = "realtime"
    /\ mounted
    /\ issued = 2
    /\ now = 1
    /\ BagCardinality(inflight) = 1
    /\ event.kind = "resolve"
    /\ event.ok
    /\ latestData = response[1]
    /\ prediction = response[2]

\* C14: handling the answer of the entry fetch, a failure included, leaves
\* todayLabels and a pending label fetch untouched, and handling the answer
\* of the label fetch leaves entries and a pending entry fetch untouched;
\* a successful answer handled while mounted is written to its own slot.
C14_SourcesIndependent ==
    /\ [][(page = "diary" /\ IsResponse /\ event'.kind = "loadEntries") =>
            /\ todayLabels' = todayLabels
            /\ Copies(Request("loadTodayLabels"), inflight')
                   = Copies(Request("loadTodayLabels"), inflight)
            /\ (mounted /\ response'[1] # Rejected) => entries' = response'[1].list
            /\ response'[1] = Rejected => entries' = entries]_vars
    /\ [][(page = "diary" /\ IsResponse /\ event'.kind = "loadTodayLabels") =>
            /\ entries' = entries
            /\ Copies(Request("loadEntries"), inflight')
                   = Copies(Request("loadEntries"), inflight)
            /\ (mounted /\ response'[1] # Rejected) => todayLabels' = response'[1].list
            /\ response'[1] = Rejected => todayLabels' = todayLabels]_vars

\* The entry fetch failed after the labels had been loaded.
C14_Witness ==
    /\ page = "diary"
    /\ mounted
    /\ event.kind = "loadEntries"
    /\ response[1] = Rejected
    /\ Len(todayLabels) > 0
    /\ inflight = EmptyBag

\* C13: when a fetch of a refresh cycle of HomePage, RealtimePage, WatchPage
\* or StatsPage has failed, handling the cycle's outcome changes no data
\* slot, those of the fetches that succeeded included, and appends no point
\* to the window.
C13_FailureAbortsCycle ==
    [][(/\ page \in Pages \cup {"stats"}
        /\ IsResponse
        /\ (response'[1] = Rejected \/ response'[2] = Rejected)) =>
            UNCHANGED <<latestData, prediction, hrHistory, appended, analytics,
                        dailyStats, healthData, weeklyStats, monthlyStats,
                        dailyWatchAnalytics, weeklyWatchAnalytics,
                        monthlyWatchAnalytics>>]_vars

\* A cycle of StatsPage whose stats fetch succeeded and whose analytics
\* fetch failed, after an earlier cycle had filled the slots.
C13_Witness ==
    /\ page = "stats"
    /\ mounted
    /\ event.kind = "resolve"
    /\ ~event.ok
    /\ event.data.tab = "daily"
    /\ response[1] # Rejected
    /\ response[2] = Rejected
    /\ dailyStats # Null
    /\ dailyWatchAnalytics # Null

\* The place of entry x among the entries of the distribution p.
PlaceIn(p, x) == CHOOSE i \in DOMAIN p : p[i] = x

\* C15: the ranked list has the TopK = 3 entries of the distribution with
\* the highest probability, all of them when there are fewer, ordered by
\* probability descending and, at equal probability, in the distribution's
\* key order; {a: 0.5, b: 0.5, c: 0.1} with K = 2 gives [a, b].
C15_TopKStable ==
    /\ Ranked(<<[key |-> "a", value |-> 500], [key |-> "b", value |-> 500],
                [key |-> "c", value |-> 100]>>, 2) = <<<<"a", 500>>, <<"b", 500>>>>
    /\ prediction # Null =>
         LET p == Entries(prediction.probabilities)
             r == probabilityItems
             Before(x, y) == x[2] > y[2] \/ (x[2] = y[2] /\ PlaceIn(p, x) < PlaceIn(p, y))
         IN  /\ Len(r) = IF Len(p) < TopK THEN Len(p) ELSE TopK
             /\ \A i \in DOMAIN r : \E j \in DOMAIN p : p[j] = r[i]
             /\ \A i, j \in DOMAIN r : i < j => Before(r[i], r[j])
             /\ \A j \in DOMAIN p :
                    (\A i \in DOMAIN r : r[i] # p[j]) =>
                        \A i \in DOMAIN r : Before(r[i], p[j])

\* A prediction with four emotions was received: the entry ranked third ties
\* with the one left out, and the first entry of the distribution is not the
\* first of the ranking.
C15_Witness ==
    /\ page = "realtime"
    /\ prediction # Null
    /\ Len(prediction.probabilities) = 4
    /\ Len(probabilityItems) = 3
    /\ probabilityItems[1][2] > probabilityItems[3][2]
    /\ probabilityItems[1][1] # prediction.probabilities[1].key
    /\ \E j \in DOMAIN prediction.probabilities :
          /\ prediction.probabilities[j].value = probabilityItems[3][2]
          /\ \A i \in DOMAIN probabilityItems :
                probabilityItems[i][1] # prediction.probabilities[j].key

\* C16: for a prediction with an empty distribution the ranked list is
\* empty (and is defined: the sort and the slice of no entries raise nothing).
C16_EmptyDistribution ==
    (prediction # Null /\ prediction.probabilities = <<>>) => probabilityItems = <<>>

\* A prediction with an empty distribution is shown.
C16_Witness ==
    /\ page = "realtime"
    /\ mounted
    /\ event.kind = "resolve"
    /\ event.ok
    /\ prediction # Null
    /\ prediction.probabilities = <<>>
    /\ probabilityItems = <<>>

\* C17: the monthly rows are the entries of emotion_patterns, one row each
\* and in the mapping's order, with the percentage 100 times the stored
\* fraction: {joy: 0.25, sad: 0.75} gives 25 and 75.
C17_MonthlyRows ==
    monthlyStats # Null =>
        LET patterns == monthlyStats.emotion_patterns
            rows == prepareMonthlyChartData
        IN  /\ Len(rows) = Len(patterns)
            /\ \A i \in DOMAIN rows :
                  /\ rows[i].emotion = patterns[i].key
                  /\ rows[i].percentage = 100 * patterns[i].value
            /\ patterns = <<[key |-> "joy", value |-> 25], [key |-> "sad", value |-> 75]>>
                 => rows = <<[emotion |-> "joy", percentage |-> 2500],
                             [emotion |-> "sad", percentage |-> 7500]>>

\* The monthly aggregate {joy: 0.25, sad: 0.75} is shown.
C17_Witness ==
    /\ page = "stats"
    /\ activeTab = "monthly"
    /\ ~loading
    /\ monthlyStats # Null
    /\ monthlyStats.emotion_patterns =
           <<[key |-> "joy", value |-> 25], [key |-> "sad", value |-> 75]>>
    /\ Len(prepareMonthlyChartData) = 2

\* C18: the daily rows are the entries of emotion_distribution, one row each
\* with the emotion's count and in the mapping's order, whatever the counts;
\* an emotion that is not in the distribution has no row.
C18_DailyRows ==
    dailyStats # Null =>
        LET dist == dailyStats.emotion_distribution
            rows == prepareDailyChartData
        IN  /\ Len(rows) = Len(dist)
            /\ \A i \in DOMAIN rows :
                  rows[i] = [emotion |-> dist[i].key, count |-> dist[i].value]
            /\ \A e \in Emotions :
                  Get(dist, e) = Undefined => \A i \in DOMAIN rows : rows[i].emotion # e

\* A daily aggregate of two emotions is shown, the one with the smaller
\* count first; a third emotion is absent.
C18_Witness ==
    /\ page = "stats"
    /\ activeTab = "daily"
    /\ ~loading
    /\ dailyStats # Null
    /\ Len(prepareDailyChartData) = 2
    /\ prepareDailyChartData[1].count < prepareDailyChartData[2].count
    /\ \E e \in Emotions : Get(dailyStats.emotion_distribution, e) = Undefined

\* C19: the weekly rows are the days of daily_stats, one row each and in
\* their order; the row of a day has the count of each emotion of the day's
\* distribution under the emotion's name, and an emotion the day lacks is
\* undefined in the row.
C19_WeeklyRows ==
    weeklyStats # Null =>
        LET days == weeklyStats.daily_stats
            rows == prepareWeeklyChartData
        IN  /\ Len(rows) = Len(days)
            /\ \A i \in DOMAIN rows :
                  \A e \in Emotions :
                      Get(rows[i], e) =
                          IF Get(days[i].emotion_distribution, e) = Undefined
                          THEN Undefined
                          ELSE Some(Num(Get(days[i].emotion_distribution, e)[1]))

\* A week of two days is shown: the first day has joy only, the second has
\* sad and joy.
C19_Witness ==
    /\ page = "stats"
    /\ activeTab = "weekly"
    /\ ~loading
    /\ weeklyStats # Null
    /\ Len(prepareWeeklyChartData) = 2
    /\ Get(prepareWeeklyChartData[1], "joy") # Undefined
    /\ Get(prepareWeeklyChartData[1], "sad") = Undefined
    /\ Get(prepareWeeklyChartData[2], "sad") # Undefined
    /\ Get(prepareWeeklyChartData[2], "joy") # Undefined

\* C20: an emotion keeps its colour: when a refresh replaces the aggregate,
\* an emotion that the chart had before and has after is given the same
\* colour as before, in the daily pie and in the weekly chart.
C20_ColourByIdentity ==
    [][\A e \in Emotions :
          /\ (DailyFillOf(e) # Undefined /\ DailyFillOf(e)' # Undefined)
                => DailyFillOf(e)' = DailyFillOf(e)
          /\ (WeeklyStrokeOf(e) # Undefined /\ WeeklyStrokeOf(e)' # Undefined)
                => WeeklyStrokeOf(e)' = WeeklyStrokeOf(e)]_vars

\* The items of sequence s, as a bag.
Items(s) == [x \in {s[i] : i \in DOMAIN s} |-> Cardinality({i \in DOMAIN s : s[i] = x})]

\* C21: the timeline of no entries and no labels is empty; with no entries
\* it has exactly the labels, with no labels exactly the entries.
C21_EmptyMerge ==
    LET all == allEntries
    IN  /\ (entries = <<>> /\ todayLabels = <<>>) => all = <<>>
        /\ entries = <<>> => Items(all) = Items(TagMood(todayLabels))
        /\ todayLabels = <<>> => Items(all) = Items(TagDiary(entries))

\* The entry fetch returned an empty list and the label fetch two labels.
C21_Witness ==
    /\ page = "diary"
    /\ inflight = EmptyBag
    /\ entries = <<>>
    /\ Len(todayLabels) = 2
    /\ Len(allEntries) = 2

\* C22: a push puts the new point last and keeps, in their order, the points
\* of the previous window but possibly its oldest; the window is at all
\* times a suffix of the sequence of the points appended.
C22_AppendOnlySuffix ==
    /\ [](\E k \in 0..Len(appended) :
             hrHistory = SubSeq(appended, k + 1, Len(appended)))
    /\ [][hrHistory' # hrHistory =>
            /\ hrHistory'[Len(hrHistory')] = appended'[Len(appended')]
            /\ appended' = Append(appended, hrHistory'[Len(hrHistory')])
            /\ \E k \in 0..1 :
                  SubSeq(hrHistory', 1, Len(hrHistory') - 1)
                      = SubSeq(hrHistory, k + 1, Len(hrHistory))]_vars

\* The full window took another point and lost its oldest.
C22_Witness ==
    /\ page = "realtime"
    /\ Len(appended) = Capacity + 1
    /\ Len(hrHistory) = Capacity
    /\ hrHistory[1] = appended[2]
    /\ hrHistory[Capacity] = appended[Capacity + 1]

\* C27: while RealtimePage is mounted, each refresh that succeeds with a
\* heart rate in its sample appends one point, so that the window has
\* min(20, number of such refreshes) points.
C27_OnePointPerRefresh ==
    [][(/\ page = "realtime" /\ mounted /\ IsResponse
        /\ response'[1] # Rejected /\ response'[2] # Rejected
        /\ ~MetricAbsent(response'[1])) =>
            /\ Len(appended') = Len(appended) + 1
            /\ Len(hrHistory') = IF Len(appended') < Capacity THEN Len(appended')
                                                             ELSE Capacity]_vars

\* C24: handling the outcome of a loadStats for tab T leaves the four slots
\* of the two other tabs unchanged, and on success, the page mounted, T's
\* two slots are the two values fetched.
C24_OwnSlotsOnly ==
    [][(page = "stats" /\ IsResponse) =>
          LET tab == event'.data.tab
              ok == mounted /\ response'[1] # Rejected /\ response'[2] # Rejected
          IN  /\ tab # "daily" => UNCHANGED <<dailyStats, dailyWatchAnalytics>>
              /\ tab # "weekly" => UNCHANGED <<weeklyStats, weeklyWatchAnalytics>>
              /\ tab # "monthly" => UNCHANGED <<monthlyStats, monthlyWatchAnalytics>>
              /\ (ok /\ tab = "daily") =>
                    dailyStats' = response'[1] /\ dailyWatchAnalytics' = response'[2]
              /\ (ok /\ tab = "weekly") =>
                    weeklyStats' = response'[1] /\ weeklyWatchAnalytics' = response'[2]
              /\ (ok /\ tab = "monthly") =>
                    monthlyStats' = response'[1] /\ monthlyWatchAnalytics' = response'[2]]_vars

\* The daily tab was refreshed a second time, the weekly slots being filled.
C24_Witness ==
    /\ page = "stats"
    /\ mounted
    /\ event.kind = "resolve"
    /\ event.ok
    /\ event.data.tab = "daily"
    /\ now >= 3
    /\ dailyStats = response[1]
    /\ Len(dailyStats.emotion_distribution) = 2
    /\ weeklyStats # Null
    /\ weeklyWatchAnalytics # Null

\* C26: in StatsPage loading is true whenever a loadStats is in flight, and
\* so is false only when none is.
C26_LoadingWhileInFlight ==
    (page = "stats" /\ inflight # EmptyBag) => loading

\* A tab was clicked after the first loadStats had settled: its loadStats is
\* in flight.
C26_Witness ==
    /\ page = "stats"
    /\ mounted
    /\ event.kind = "setActiveTab"
    /\ activeTab = "weekly"
    /\ BagIn(StatsClosure("weekly"), inflight)
    /\ loading
    /\ dailyStats # Null

\* C30: in every weekly row date is the day's stat.date and day is its
\* weekday, whatever the keys of the day's emotion_distribution.
C30_RowDayAndDate ==
    weeklyStats # Null =>
        LET days == weeklyStats.daily_stats
            rows == prepareWeeklyChartData
        IN  \A i \in DOMAIN rows :
                /\ Get(rows[i], "date") = Some(days[i].date)
                /\ Get(rows[i], "day") = Some(FormatEEE(days[i].date))


\* The React keys of the timeline: `${item.type}-${item.data.id}`
ItemKeys == [i \in DOMAIN allEntries |-> <<allEntries[i].type, allEntries[i].data.id>>]

\* C23: in DiaryPage no two items of the timeline have the same key
\* (type, id), whatever the interleaving of the initial loads, the entry
\* creations and the label reloads; ids are unique only within a type.
C23_UniqueKeys ==
    page = "diary" =>
        \A i, j \in DOMAIN ItemKeys : i # j => ItemKeys[i] # ItemKeys[j]

\* A created entry stands in front of loaded ones, and a label has the id of
\* an entry.
C23_Witness ==
    /\ page = "diary"
    /\ event.kind = "handleDiarySubmit" /\ event.ok
    /\ Len(entries) >= 2
    /\ \E i \in DOMAIN entries : \E j \in DOMAIN todayLabels :
           entries[i].id = todayLabels[j].id

\* C25: when a createEntry succeeds, entries becomes the new entry followed
\* by the entries of just before the response: the new entry is the first
\* one, and every entry that was there, such as the ones loadEntries
\* delivered, is still there.
C25_NoEntryLost ==
    [][(/\ page = "diary" /\ mounted /\ IsResponse
        /\ event'.kind = "handleDiarySubmit" /\ event'.ok) =>
            /\ entries'[1] = response'[1]
            /\ \A i \in DOMAIN entries : \E j \in DOMAIN entries' :
                   entries'[j] = entries[i]]_vars


\* C28: each submit form (the diary entry and the mood label of DiaryPage,
\* the mood label of MoodPage) has at most one create request in flight; a
\* submit while the form's loading flag is set, or with an empty trimmed
\* input or no selected emotion, issues no request and changes no state.
C28_OneCreateInFlight ==
    /\ [](\A c, d \in BagToSet(inflight) :
              (c.fn \in {"createEntry", "createEmotionLabel"} /\ d.fn = c.fn) =>
                  (d = c /\ CopiesIn(c, inflight) = 1))
    /\ [][(/\ ~IsResponse
           /\ \/ /\ event'.kind = "handleDiarySubmit"
                 /\ (Trim(inputValue) = <<>> \/ loading)
              \/ /\ event'.kind = "handleMoodSubmit"
                 /\ (selectedEmotion = Null \/ moodLoading)
              \/ /\ event'.kind = "handleSubmit"
                 /\ (selectedEmotion = Null \/ loading)) =>
            UNCHANGED <<inflight, issued, loading, moodLoading, inputValue,
                        selectedEmotion, intensity, note, entries, todayLabels,
                        prediction, server, response>>]_vars

\* The diary form was submitted while its create request was in flight, and
\* the mood form of MoodPage likewise.
C28_Witness ==
    /\ mounted
    /\ \/ /\ event = Ev("handleDiarySubmit", FALSE, Null)
          /\ loading /\ Trim(inputValue) # <<>>
          /\ \E c \in BagToSet(inflight) : c.fn = "createEntry"
       \/ /\ event = Ev("handleSubmit", FALSE, Null)
          /\ loading /\ selectedEmotion # Null
          /\ \E c \in BagToSet(inflight) : c.fn = "createEmotionLabel"

\* C29: a submit leaves the form inputs and the lists as they are, and so
\* does the failure of its create request, which issues no reload and
\* resets the form's loading flag; the flag is also reset when a successful
\* submit has run to its end, so it is set only while a request of the
\* submit is in flight.
C29_FailureLeavesForm ==
    /\ [][(event'.kind \in {"handleDiarySubmit", "handleMoodSubmit", "handleSubmit"}
           /\ (~IsResponse \/ response'[1] = Rejected)) =>
            /\ UNCHANGED <<inputValue, selectedEmotion, intensity, note,
                           entries, todayLabels>>
            /\ IsResponse =>
                   /\ issued' = issued
                   /\ \A c \in BagToSet(inflight') : BagIn(c, inflight)
                   /\ mounted =>
                          IF event'.kind = "handleMoodSubmit"
                          THEN ~moodLoading' ELSE ~loading']_vars
    /\ []((mounted /\ page = "diary" /\ loading) =>
              \E c \in BagToSet(inflight) : c.fn = "createEntry")
    /\ []((mounted /\ page = "diary" /\ moodLoading) =>
              \E c \in BagToSet(inflight) :
                  c.fn = "createEmotionLabel" \/ c = ReloadCall("diary"))
    /\ []((mounted /\ page = "mood" /\ loading) =>
              \E c \in BagToSet(inflight) :
                  \/ c.fn = "createEmotionLabel"
                  \/ c = MoodCall("loadTodayLabels", "submit")
                  \/ c = MoodCall("loadPrediction", "submit"))

\* A create request of the mood form has failed with the form filled in; the
\* inputs are still there.
C29_Witness ==
    /\ mounted
    /\ event = Ev("handleMoodSubmit", FALSE, Null)
    /\ response = <<Rejected>>
    /\ ~moodLoading
    /\ selectedEmotion # Null
    /\ note # <<>>

====
